---------------------------- MODULE Spec2Model ----------------------------
(***************************************************************************)
(* A model of "Space Shooter/space_shooter.js": the animation-frame loop,  *)
(* the tick (update) with its phases, the entity registry with deferred    *)
(* removal, the three entity kinds, the spawner and the collision checker. *)
(*                                                                         *)
(* Units.  Time is counted in units of 1/UnitsPerSecond second, where      *)
(* UnitsPerSecond = fps * Resolution, so that one tick                     *)
(* (config.update_rate.seconds = 1/fps s) is Resolution units and callback *)
(* times can fall between tick boundaries.  Positions are counted in       *)
(* 1/UnitsPerSecond pixel, so that "position += delta_time * velocity"     *)
(* with velocity in pixel/second is exact integer arithmetic.  The source  *)
(* computes in IEEE doubles; rounding of the doubles is not modelled.      *)
(*                                                                         *)
(* JavaScript objects live in heap, keyed by a reference (the position of  *)
(* the object in the creation log created); entities maps a key of the     *)
(* registry to the reference stored under it, and player is a reference.   *)
(***************************************************************************)
EXTENDS Integers, Sequences, FiniteSets, TLC

VARIABLES
    heap,                         \* reference -> object (Body and subclasses)
    created,                      \* log of every Body ever constructed
    entities,                     \* the registry: key -> reference
    queued_entities_for_removal,  \* sequence of ids
    running_id,                   \* next id to assign
    player,                       \* reference of the active Player
    enemy_spawner,                \* [accumulator |-> ...]
    last_time,                    \* Null or the time of the last tick-running callback
    loop_count,                   \* number of update calls
    curr_time,                    \* argument of the running / latest loop() call
    first_time,                   \* argument of the first loop() call (Null before it)
    delta_time,                   \* loop()'s local delta_time
    pc,                           \* position inside loop() / update()
    todo,                         \* rest of the array Object.values(entities) being forEach-ed
    updated,                      \* references whose update() has run in the current tick
    key_events                    \* number of keydown / keyup events so far

vars == << heap, created, entities, queued_entities_for_removal, running_id,
           player, enemy_spawner, last_time, loop_count, curr_time, first_time,
           delta_time, pc, todo, updated, key_events >>

\* null, for last_time before the first callback (times are >= 0)
Null == -1

-----------------------------------------------------------------------------
(* Bounds of the model *)

\* config.update_rate.fps is 60 in the source; the model runs the same code at
\* a lower tick rate so that the 1 s and 5 s accumulators fill in few ticks.
fps == 2

\* time units per tick: callback times are multiples of 1/Resolution tick
Resolution == 2

\* ticks are started only while loop_count is below this
MaxLoops == 54

\* callbacks are accepted only while running_id is below this
MaxId == 8

\* callbacks are accepted only while curr_time is below this (SpecLoop)
MaxTime == 16

\* the environment sends at most this many keydown / keyup events
MaxKeyEvents == 3

UnitsPerSecond == fps * Resolution

-----------------------------------------------------------------------------
(* config *)

canvas_width == 300
canvas_height == 500

\* config.update_rate.seconds = 1 / config.update_rate.fps, in time units
update_rate_seconds == UnitsPerSecond \div fps

\* n pixels (or n seconds) in position (time) units
px(n) == n * UnitsPerSecond
seconds(n) == n * UnitsPerSecond

\* x * Math.SQRT1_2, rounded toward zero (SQRT1_2 = 0.7071...)
TimesSQRT1_2(x) == IF x >= 0 THEN (x * 7071) \div 10000 ELSE -(((-x) * 7071) \div 10000)

\* the outcomes of randomInt(min, max)
randomInt(min, max) == min .. max

Min(a, b) == IF a < b THEN a ELSE b
Max(a, b) == IF a > b THEN a ELSE b

\* the keys of a JS array/object in ascending order (the order of Object.values
\* and of an index loop over an array)
RECURSIVE SortedSeq(_)
SortedSeq(S) ==
    IF S = {} THEN << >>
    ELSE LET m == CHOOSE x \in S : \A y \in S : x <= y
         IN << m >> \o SortedSeq(S \ {m})

KeysOf(w) == SortedSeq(DOMAIN w.entities)

\* Object.values(entities): the references stored, in ascending key order
ObjectValues(w) == LET ks == KeysOf(w) IN [i \in 1 .. Len(ks) |-> w.entities[ks[i]]]

-----------------------------------------------------------------------------
(* The world: the globals of the script, threaded through the operators     *)

World == [ heap |-> heap, created |-> created, entities |-> entities,
           queue |-> queued_entities_for_removal, running_id |-> running_id,
           player |-> player, enemy_spawner |-> enemy_spawner ]

SetWorld(w) ==
    /\ heap' = w.heap
    /\ created' = w.created
    /\ entities' = w.entities
    /\ queued_entities_for_removal' = w.queue
    /\ running_id' = w.running_id
    /\ player' = w.player
    /\ enemy_spawner' = w.enemy_spawner

\* the reference the next constructed object gets
NewRef(w) == Len(w.created) + 1

\* class Body: field initialisers and constructor
Body_constructor(w) ==
    LET id  == w.running_id
        ref == NewRef(w)
        obj == [ id |-> id, type |-> "Body",
                 position |-> [x |-> 0, y |-> 0],
                 velocity |-> [x |-> 0, y |-> 0],
                 size |-> [width |-> 10, height |-> 10],
                 health |-> 100 ]
    IN [ w EXCEPT !.running_id = id + 1,
                  !.heap = (ref :> obj) @@ @,
                  !.entities = (id :> ref) @@ @,
                  !.created = Append(@, [id |-> id, type |-> "Body"]) ]

\* a variant of Body.isDead that takes health 0 for alive
isDead_below_zero(obj) == obj.health < 0

\* Body.isDead
isDead(obj) == obj.health <= 0

\* Body.update
Body_update(obj, dt) ==
    [ obj EXCEPT !.position = [ x |-> @.x + dt * obj.velocity.x,
                                y |-> @.y + dt * obj.velocity.y ] ]

\* a variant of Body.remove that deletes the entity from the registry at once
remove_immediately(w, ref) ==
    [ w EXCEPT !.entities = [ k \in DOMAIN @ \ { w.heap[ref].id } |-> @[k] ] ]

\* Body.remove
remove(w, ref) == [ w EXCEPT !.queue = Append(@, w.heap[ref].id) ]

\* what a subclass constructor does to the object super() returned
Construct(w, fields) ==
    LET ref == Len(w.created)
    IN [ w EXCEPT !.heap[ref] = fields @@ @,
                  !.created[ref].type = fields.type ]

\* class Player: field initialisers and constructor
Player_constructor(w) ==
    LET w1 == Body_constructor(w)
        b  == w1.heap[Len(w1.created)]
    IN Construct(w1,
         [ type |-> "Player",
           controller |-> [move_x |-> 0, move_y |-> 0, action_1 |-> FALSE],
           raw_input |-> {},
           speed |-> 120, accumulator |-> 0, mobsKilled |-> 0,
           lifeTime |-> 0, mobCount |-> 0,
           position |-> [ x |-> px(canvas_width) \div 2,
                          y |-> px(canvas_height - 100) ],
           size |-> [b.size EXCEPT !.width = 11] ])

\* a variant of the Projectile's constructor after which the new Projectile
\* has already moved for one tick
Projectile_constructor_moved(w, a) ==
    LET w1 == Body_constructor(w)
        b  == w1.heap[Len(w1.created)]
        p  == w1.heap[w1.player]
        w2 == Construct(w1,
                [ type |-> "Projectile",
                  velocity |-> [b.velocity EXCEPT !.y = -100],
                  acceleration |-> a,
                  position |-> [ x |-> p.position.x,
                                 y |-> p.position.y - px(p.size.height) - px(3) ],
                  size |-> [width |-> 3, height |-> 12] ])
    IN [ w2 EXCEPT !.heap[Len(w2.created)] = Body_update(@, update_rate_seconds) ]

\* class Projectile: constructor; a is the outcome of randomInt(0,6)
Projectile_constructor(w, a) ==
    LET w1 == Body_constructor(w)
        b  == w1.heap[Len(w1.created)]
        p  == w1.heap[w1.player]
    IN Construct(w1,
         [ type |-> "Projectile",
           velocity |-> [b.velocity EXCEPT !.y = -100],
           acceleration |-> a,
           position |-> [ x |-> p.position.x,
                          y |-> p.position.y - px(p.size.height) - px(3) ],
           size |-> [width |-> 3, height |-> 12] ])

\* class Mob: constructor; x is the outcome of randomInt(20, width - 20).
\* switchTime is kept in tenths of a second.
Mob_constructor(w, x) ==
    LET w1 == Body_constructor(w)
        b  == w1.heap[Len(w1.created)]
    IN Construct(w1,
         [ type |-> "Mob",
           accumulator |-> 0,
           switchTime |-> 1,
           position |-> [x |-> px(x), y |-> px(-12)],
           speed |-> 100,
           velocity |-> [b.velocity EXCEPT !.y = 100],
           size |-> [b.size EXCEPT !.width = 10] ])

\* InputHandler.pollController (with resetController)
pollController(p) ==
    LET key(k) == k \in p.raw_input
        mx == (IF key(68) THEN 1 ELSE 0) + (IF key(65) THEN -1 ELSE 0)
        my == (IF key(87) THEN -1 ELSE 0) + (IF key(83) THEN 1 ELSE 0)
    IN [ p EXCEPT !.controller =
             [move_x |-> mx, move_y |-> my, action_1 |-> key(32)] ]

\* a variant of Player.update that leaves the accumulator alone after firing
Player_update_no_reset(w, ref, dt, a) ==
    LET p0 == w.heap[ref]
        p1 == [ p0 EXCEPT !.lifeTime = @ + dt,
                          !.accumulator = @ + dt,
                          !.velocity = [ x |-> p0.speed * p0.controller.move_x,
                                         y |-> p0.speed * p0.controller.move_y ] ]
        p2 == IF p1.controller.move_x # 0 /\ p1.controller.move_y # 0
              THEN [ p1 EXCEPT !.velocity = [ x |-> TimesSQRT1_2(@.x),
                                              y |-> TimesSQRT1_2(@.y) ] ]
              ELSE p1
        fire == p2.controller.action_1 = TRUE /\ p2.accumulator >= seconds(1)
        w1 == [ w EXCEPT !.heap[ref] = p2 ]
        w2 == IF fire THEN Projectile_constructor(w1, a) ELSE w1
        p3 == Body_update(w2.heap[ref], dt)
        p4 == [ p3 EXCEPT !.position =
                  [ x |-> Min(Max(0, @.x), px(canvas_width)),
                    y |-> Min(Max(0, @.y), px(canvas_height)) ] ]
    IN [ w2 EXCEPT !.heap[ref] = p4 ]

\* Player.update; a is the outcome of randomInt(0,6) in new Projectile()
Player_update(w, ref, dt, a) ==
    LET p0 == w.heap[ref]
        p1 == [ p0 EXCEPT !.lifeTime = @ + dt,
                          !.accumulator = @ + dt,
                          !.velocity = [ x |-> p0.speed * p0.controller.move_x,
                                         y |-> p0.speed * p0.controller.move_y ] ]
        p2 == IF p1.controller.move_x # 0 /\ p1.controller.move_y # 0
              THEN [ p1 EXCEPT !.velocity = [ x |-> TimesSQRT1_2(@.x),
                                              y |-> TimesSQRT1_2(@.y) ] ]
              ELSE p1
        fire == p2.controller.action_1 = TRUE /\ p2.accumulator >= seconds(1)
        w1 == [ w EXCEPT !.heap[ref] = p2 ]
        w2 == IF fire
              THEN LET w3 == Projectile_constructor(w1, a)
                   IN [ w3 EXCEPT !.heap[ref].accumulator = 0 ]
              ELSE w1
        p3 == Body_update(w2.heap[ref], dt)
        p4 == [ p3 EXCEPT !.position =
                  [ x |-> Min(Max(0, @.x), px(canvas_width)),
                    y |-> Min(Max(0, @.y), px(canvas_height)) ] ]
    IN [ w2 EXCEPT !.heap[ref] = p4 ]

\* a variant of Projectile.update without the test for the top boundary
Projectile_update_never_leaving(w, ref, dt) ==
    LET o1 == [ w.heap[ref] EXCEPT !.velocity.y = @ - w.heap[ref].acceleration ]
    IN [ w EXCEPT !.heap[ref] = Body_update(o1, dt) ]

\* a variant of Projectile.update that brakes instead of accelerating
Projectile_update_braking(w, ref, dt) ==
    LET w1 == IF w.heap[ref].position.y <= px(-5) THEN remove(w, ref) ELSE w
        o1 == [ w1.heap[ref] EXCEPT !.velocity.y = @ + w1.heap[ref].acceleration ]
    IN [ w1 EXCEPT !.heap[ref] = Body_update(o1, dt) ]

\* Projectile.update
Projectile_update(w, ref, dt) ==
    LET w1 == IF w.heap[ref].position.y <= px(-5) THEN remove(w, ref) ELSE w
        o1 == [ w1.heap[ref] EXCEPT !.velocity.y = @ - w1.heap[ref].acceleration ]
    IN [ w1 EXCEPT !.heap[ref] = Body_update(o1, dt) ]

\* Mob.switch; h is the outcome of randomInt(1,3), s of randomInt(0,2)
Mob_switch(m, h, s) ==
    LET v == CASE h = 1 -> [ x |-> TimesSQRT1_2(m.speed), y |-> TimesSQRT1_2(m.speed) ]
               [] h = 2 -> [ x |-> -TimesSQRT1_2(m.speed), y |-> TimesSQRT1_2(m.speed) ]
               [] h = 3 -> [ x |-> 0, y |-> m.speed ]
               [] OTHER -> m.velocity
    IN [ m EXCEPT !.velocity = v, !.switchTime = 10 * s, !.accumulator = 0 ]

\* a variant of Mob.update without the test for the bottom boundary
Mob_update_never_leaving(w, ref, dt, h, s) ==
    LET m0 == [ w.heap[ref] EXCEPT !.accumulator = @ + dt ]
        m1 == IF m0.position.x >= px(canvas_width - 5)
              THEN [ m0 EXCEPT !.velocity.x = -m0.speed ]
              ELSE IF m0.position.x <= px(5)
                   THEN [ m0 EXCEPT !.velocity.x = m0.speed ]
                   ELSE m0
        m2 == Body_update(m1, dt)
        m3 == IF m2.accumulator * 10 >= m2.switchTime * UnitsPerSecond
              THEN Mob_switch(m2, h, s)
              ELSE m2
    IN [ w EXCEPT !.heap[ref] = m3 ]

\* Mob.update
Mob_update(w, ref, dt, h, s) ==
    LET m0 == [ w.heap[ref] EXCEPT !.accumulator = @ + dt ]
        w1 == IF m0.position.y >= px(canvas_height + 5) THEN remove(w, ref) ELSE w
        m1 == IF m0.position.x >= px(canvas_width - 5)
              THEN [ m0 EXCEPT !.velocity.x = -m0.speed ]
              ELSE IF m0.position.x <= px(5)
                   THEN [ m0 EXCEPT !.velocity.x = m0.speed ]
                   ELSE m0
        m2 == Body_update(m1, dt)
        m3 == IF m2.accumulator * 10 >= m2.switchTime * UnitsPerSecond
              THEN Mob_switch(m2, h, s)
              ELSE m2
    IN [ w1 EXCEPT !.heap[ref] = m3 ]

\* entity.update(delta_time): dynamic dispatch on the class of the object
Entity_update(w, ref, dt, a, h, s) ==
    CASE w.heap[ref].type = "Player"     -> Player_update(w, ref, dt, a)
      [] w.heap[ref].type = "Projectile" -> Projectile_update(w, ref, dt)
      [] w.heap[ref].type = "Mob"        -> Mob_update(w, ref, dt, h, s)
      [] OTHER -> w

\* a variant of Enemy_Spawner.update that never resets its accumulator
Enemy_Spawner_update_no_reset(w, dt, x) ==
    LET acc == w.enemy_spawner.accumulator + dt
    IN IF acc >= seconds(5)
       THEN LET w1 == Mob_constructor(w, x)
            IN [ w1 EXCEPT !.heap[w1.player].mobCount = @ + 1,
                           !.enemy_spawner.accumulator = acc ]
       ELSE [ w EXCEPT !.enemy_spawner.accumulator = acc ]

\* Enemy_Spawner.update; x is the outcome of randomInt(20, width - 20)
Enemy_Spawner_update(w, dt, x) ==
    LET acc == w.enemy_spawner.accumulator + dt
    IN IF acc >= seconds(5)
       THEN LET w1 == Mob_constructor(w, x)
            IN [ w1 EXCEPT !.heap[w1.player].mobCount = @ + 1,
                           !.enemy_spawner.accumulator = 0 ]
       ELSE [ w EXCEPT !.enemy_spawner.accumulator = acc ]

\* the overlap test of CollissionChecker.update
Overlap(rect1, rect2) ==
    /\ rect1.position.x < rect2.position.x + px(rect2.size.width)
    /\ rect1.position.x + px(rect1.size.width) > rect2.position.x
    /\ rect1.position.y < rect2.position.y + px(rect2.size.height)
    /\ rect1.position.y + px(rect1.size.height) > rect2.position.y

\* a variant of the inner loop body whose rules match a pair in either order
CollidePair_either_order(w, r1, r2) ==
    LET rect1 == w.heap[r1]
        rect2 == w.heap[r2]
    IN IF ~Overlap(rect1, rect2) THEN w
       ELSE IF rect1.type = rect2.type THEN w
       ELSE IF rect1.type = "Player" /\ rect2.type = "Mob"
            THEN remove([ w EXCEPT !.heap[r1].health = @ - 20 ], r2)
       ELSE IF rect1.type = "Mob" /\ rect2.type = "Player"
            THEN remove([ w EXCEPT !.heap[r2].health = @ - 20 ], r1)
       ELSE IF rect1.type = "Projectile" /\ rect2.type = "Mob"
            THEN LET w1 == remove(remove(w, r2), r1)
                 IN [ w1 EXCEPT !.heap[w1.player].mobsKilled = @ + 1 ]
       ELSE IF rect1.type = "Mob" /\ rect2.type = "Projectile"
            THEN LET w1 == remove(remove(w, r1), r2)
                 IN [ w1 EXCEPT !.heap[w1.player].mobsKilled = @ + 1 ]
       ELSE w

\* a variant of the inner loop body whose Player/Mob rule leaves the Mob alone
CollidePair_sparing_mob(w, r1, r2) ==
    LET rect1 == w.heap[r1]
        rect2 == w.heap[r2]
    IN IF ~Overlap(rect1, rect2) THEN w
       ELSE IF rect1.type = rect2.type THEN w
       ELSE IF rect1.type = "Player" /\ rect2.type = "Mob"
            THEN [ w EXCEPT !.heap[r1].health = @ - 20 ]
       ELSE IF rect1.type = "Projectile" /\ rect2.type = "Mob"
            THEN LET w1 == remove(remove(w, r2), r1)
                 IN [ w1 EXCEPT !.heap[w1.player].mobsKilled = @ + 1 ]
       ELSE w

\* a variant of the inner loop body that keeps the Player's health at 0 or above
CollidePair_clamping(w, r1, r2) ==
    LET rect1 == w.heap[r1]
        rect2 == w.heap[r2]
    IN IF ~Overlap(rect1, rect2) THEN w
       ELSE IF rect1.type = rect2.type THEN w
       ELSE IF rect1.type = "Player" /\ rect2.type = "Mob"
            THEN remove([ w EXCEPT !.heap[r1].health = Max(0, @ - 20) ], r2)
       ELSE IF rect1.type = "Projectile" /\ rect2.type = "Mob"
            THEN LET w1 == remove(remove(w, r2), r1)
                 IN [ w1 EXCEPT !.heap[w1.player].mobsKilled = @ + 1 ]
       ELSE w

\* the body of the inner loop of CollissionChecker.update for entities[i], entities[j]
CollidePair(w, r1, r2) ==
    LET rect1 == w.heap[r1]
        rect2 == w.heap[r2]
    IN IF ~Overlap(rect1, rect2) THEN w
       ELSE IF rect1.type = rect2.type THEN w
       ELSE IF rect1.type = "Player" /\ rect2.type = "Mob"
            THEN remove([ w EXCEPT !.heap[r1].health = @ - 20 ], r2)
       ELSE IF rect1.type = "Projectile" /\ rect2.type = "Mob"
            THEN LET w1 == remove(remove(w, r2), r1)
                 IN [ w1 EXCEPT !.heap[w1.player].mobsKilled = @ + 1 ]
       ELSE w

\* entities.length: start() makes entities an empty array and every key it gets
\* afterwards is a fresh running_id, so the length is the running_id
ArrayLength(w) == w.running_id

\* a variant of the index loops that visits every (i, j) twice
OrderedPairs_twice(n) ==
    [ k \in 1 .. 2 * n * n |-> << ((k - 1) \div 2) \div n, ((k - 1) \div 2) % n >> ]

\* the two nested index loops, as the sequence of (i, j) they visit
OrderedPairs(n) ==
    [ k \in 1 .. n * n |-> << (k - 1) \div n, (k - 1) % n >> ]

\* one pass of the inner loop body, for the indices i and j: indices that are
\* no keys of the registry are skipped (typeof entities[i] === 'undefined')
ScanPair(w, pair) ==
    IF pair[1] \notin DOMAIN w.entities \/ pair[2] \notin DOMAIN w.entities
    THEN w
    ELSE CollidePair(w, w.entities[pair[1]], w.entities[pair[2]])

\* the loops over the pairs, in order, from the world w: the first half of the
\* pairs, then the second half from the world the first half leaves (each
\* world is evaluated once, where it is bound to v)
RECURSIVE ScanPairs(_, _)
ScanPairs(w, pairs) ==
    LET Scan(v, ps) ==
            IF ps = << >> THEN v
            ELSE IF Len(ps) = 1 THEN ScanPair(v, ps[1])
            ELSE ScanPairs(ScanPairs(v, SubSeq(ps, 1, Len(ps) \div 2)),
                           SubSeq(ps, Len(ps) \div 2 + 1, Len(ps)))
    IN CHOOSE out \in { Scan(v, ps) : v \in { w }, ps \in { pairs } } : TRUE

\* CollissionChecker.update
CollissionChecker_update(w) == ScanPairs(w, OrderedPairs(ArrayLength(w)))

\* objects no longer referenced by the registry or by player are dropped
Collect(w) ==
    LET live == { w.entities[k] : k \in DOMAIN w.entities } \cup { w.player }
    IN [ w EXCEPT !.heap = [ r \in live |-> w.heap[r] ] ]

\* a variant of the purge loop in the manner of splice(indexOf(id), 1): an id
\* that is not a key takes the last entity with it
RECURSIVE DeleteAll_splicing(_, _)
DeleteAll_splicing(ents, ids) ==
    IF ids = << >> THEN ents
    ELSE LET gone == IF Head(ids) \in DOMAIN ents \/ DOMAIN ents = {}
                     THEN Head(ids)
                     ELSE CHOOSE k \in DOMAIN ents : \A j \in DOMAIN ents : j <= k
         IN DeleteAll_splicing([ k \in DOMAIN ents \ { gone } |-> ents[k] ], Tail(ids))

\* "remove enemies": the purge of update()
RECURSIVE DeleteAll(_, _)
DeleteAll(ents, ids) ==
    IF ids = << >> THEN ents
    ELSE DeleteAll([ k \in DOMAIN ents \ { Head(ids) } |-> ents[k] ], Tail(ids))

\* a variant of the purge that does not empty the pending list
Purge_queue_keeping_list(w) ==
    Collect([ w EXCEPT !.entities = DeleteAll(@, w.queue) ])

Purge_queue(w) ==
    Collect([ w EXCEPT !.entities = DeleteAll(@, w.queue), !.queue = << >> ])

\* a variant of start() that resets running_id as well
start_resetting_running_id(w) ==
    LET w1 == [ w EXCEPT !.entities = << >>, !.queue = << >>, !.running_id = 0 ]
        w2 == Player_constructor(w1)
        w3 == [ w2 EXCEPT !.player = Len(w2.created),
                          !.enemy_spawner = [accumulator |-> 0] ]
    IN Collect(w3)

\* a variant of start() that keeps the registry
start_keeping_entities(w) ==
    LET w1 == [ w EXCEPT !.queue = << >> ]
        w2 == Player_constructor(w1)
        w3 == [ w2 EXCEPT !.player = Len(w2.created),
                          !.enemy_spawner = [accumulator |-> 0] ]
    IN Collect(w3)

\* start()
start(w) ==
    LET w1 == [ w EXCEPT !.entities = << >>, !.queue = << >> ]
        w2 == Player_constructor(w1)
        w3 == [ w2 EXCEPT !.player = Len(w2.created),
                          !.enemy_spawner = [accumulator |-> 0] ]
    IN Collect(w3)

\* a variant of draw() that leaves the dead Player alone
draw_without_remove(w) == w

\* the part of draw() that changes state: the game over screen
draw(w) == IF isDead(w.heap[w.player]) THEN remove(w, w.player) ELSE w

-----------------------------------------------------------------------------
(* Inputs *)

\* key codes the environment presses
KeyCodes == {32, 87}

\* outcomes of randomInt(0,6) explored for Projectile.acceleration
Accelerations == {0}

\* outcomes of randomInt(20, width-20) explored for Mob.position.x
MobXs == {150}

\* outcomes of randomInt(1,3) and randomInt(0,2) explored in Mob.switch
Headings == {3}
SwitchTimes == {2}

\* gaps between successive animation-frame callbacks, in time units
GameGaps == { Resolution + 1 }
LoopGaps == 1 .. (2 * Resolution + 1)

-----------------------------------------------------------------------------
(* Initial state: the script has run start() and requested the first frame *)

EmptyWorld ==
    [ heap |-> << >>, created |-> << >>, entities |-> << >>, queue |-> << >>,
      running_id |-> 0, player |-> 0, enemy_spawner |-> [accumulator |-> 0] ]

Init ==
    /\ LET w == start(EmptyWorld)
       IN /\ heap = w.heap
          /\ created = w.created
          /\ entities = w.entities
          /\ queued_entities_for_removal = w.queue
          /\ running_id = w.running_id
          /\ player = w.player
          /\ enemy_spawner = w.enemy_spawner
    /\ last_time = Null
    /\ loop_count = 0
    /\ curr_time = 0
    /\ first_time = Null
    /\ delta_time = 0
    /\ pc = "idle"
    /\ todo = << >>
    /\ updated = {}
    /\ key_events = 0

\* a variant of update() that purges before it scans for collisions
update_order_purge_first ==
    << "poll", "entities", "purge", "collision", "spawn", "restart" >>

\* the statements of update(), in source order; draw() follows update() in loop()
update_order == << "poll", "entities", "collision", "purge", "spawn", "restart" >>

After(phase) ==
    LET i == CHOOSE n \in 1 .. Len(update_order) : update_order[n] = phase
    IN IF i = Len(update_order) THEN "draw" ELSE update_order[i + 1]

worldVars == << heap, created, entities, queued_entities_for_removal, running_id,
                player, enemy_spawner >>
loopVars == << last_time, loop_count, curr_time, first_time, delta_time >>

-----------------------------------------------------------------------------
(* Actions *)

\* InputHandler.keydown, for the active player's handler
KeyDown ==
    /\ pc = "idle"
    /\ key_events < MaxKeyEvents
    /\ key_events' = key_events + 1
    /\ \E k \in KeyCodes :
         /\ k \notin heap[player].raw_input
         /\ heap' = [ heap EXCEPT ![player].raw_input = @ \cup {k} ]
    /\ UNCHANGED << created, entities, queued_entities_for_removal, running_id,
                    player, enemy_spawner, loopVars, pc, todo, updated >>

\* InputHandler.keyup
KeyUp ==
    /\ pc = "idle"
    /\ key_events < MaxKeyEvents
    /\ key_events' = key_events + 1
    /\ \E k \in KeyCodes :
         /\ k \in heap[player].raw_input
         /\ heap' = [ heap EXCEPT ![player].raw_input = @ \ {k} ]
    /\ UNCHANGED << created, entities, queued_entities_for_removal, running_id,
                    player, enemy_spawner, loopVars, pc, todo, updated >>

\* loop(curr_time) up to its while loop; the callback comes gap units after
\* the previous one (the first one at time 0)
Frame(Gaps, maxTime) ==
    /\ pc = "idle"
    /\ loop_count < MaxLoops
    /\ running_id < MaxId
    /\ curr_time < maxTime
    /\ \E gap \in Gaps :
         LET t == IF first_time = Null THEN 0 ELSE curr_time + gap
             lt == IF last_time = Null THEN t ELSE last_time
         IN /\ curr_time' = t
            /\ first_time' = IF first_time = Null THEN t ELSE first_time
            /\ last_time' = lt
            /\ delta_time' = t - lt
    /\ pc' = "while"
    /\ UNCHANGED << worldVars, loop_count, todo, updated, key_events >>

\* the test of the while loop: run one more tick, or request the next frame
LoopTest ==
    /\ pc = "while"
    /\ pc' = IF delta_time > update_rate_seconds THEN update_order[1] ELSE "idle"
    /\ UNCHANGED << worldVars, loopVars, todo, updated, key_events >>

\* update(): poll input, and take the array Object.values(entities)
Poll ==
    /\ pc = "poll"
    /\ heap' = [ heap EXCEPT ![player] = pollController(@) ]
    /\ \E values \in { ObjectValues(World) } :
         /\ todo' = values
         /\ pc' = IF values = << >> THEN After(After("poll")) ELSE After("poll")
    /\ updated' = {}
    /\ UNCHANGED << created, entities, queued_entities_for_removal, running_id,
                    player, enemy_spawner, loopVars, key_events >>

\* update(): one call of the forEach callback, entity.update(delta_time)
UpdateEntity(As, Hs, Ss) ==
    /\ pc = "entities"
    /\ \E a \in As, h \in Hs, s \in Ss :
         \E w \in { Entity_update(World, Head(todo), update_rate_seconds, a, h, s) } :
             SetWorld(w)
    /\ todo' = Tail(todo)
    /\ updated' = updated \cup { Head(todo) }
    /\ pc' = IF Tail(todo) = << >> THEN After("entities") ELSE "entities"
    /\ UNCHANGED << loopVars, key_events >>

\* update(): detect and handle collision events
Collide ==
    /\ pc = "collision"
    /\ \E w \in { CollissionChecker_update(World) } : SetWorld(w)
    /\ pc' = After("collision")
    /\ UNCHANGED << loopVars, todo, updated, key_events >>

\* update(): remove enemies
Purge ==
    /\ pc = "purge"
    /\ \E w \in { Purge_queue(World) } : SetWorld(w)
    /\ pc' = After("purge")
    /\ UNCHANGED << loopVars, todo, updated, key_events >>

\* update(): spawn enemies
Spawn(Xs) ==
    /\ pc = "spawn"
    /\ \E x \in Xs :
         \E w \in { Enemy_Spawner_update(World, update_rate_seconds, x) } : SetWorld(w)
    /\ pc' = After("spawn")
    /\ UNCHANGED << loopVars, todo, updated, key_events >>

\* update(): allow the player to restart when dead
RestartCheck ==
    /\ pc = "restart"
    /\ \E w \in { IF isDead(heap[player]) /\ heap[player].controller.action_1
                   THEN start(World) ELSE World } : SetWorld(w)
    /\ pc' = After("restart")
    /\ UNCHANGED << loopVars, todo, updated, key_events >>

\* the rest of the body of the while loop: draw(graphics) and the bookkeeping
Draw ==
    /\ pc = "draw"
    /\ \E w \in { draw(World) } : SetWorld(w)
    /\ delta_time' = delta_time - update_rate_seconds
    /\ last_time' = curr_time
    /\ loop_count' = loop_count + 1
    /\ pc' = "while"
    /\ UNCHANGED << curr_time, first_time, todo, updated, key_events >>

Tick ==
    \/ LoopTest
    \/ Poll
    \/ UpdateEntity(Accelerations, Headings, SwitchTimes)
    \/ Collide
    \/ Purge
    \/ Spawn(MobXs)
    \/ RestartCheck
    \/ Draw

Next ==
    \/ KeyDown
    \/ KeyUp
    \/ Frame(GameGaps, MaxLoops * (Resolution + 1))
    \/ Tick

Spec == Init /\ [][Next]_vars

\* the loop alone: callbacks at every spacing, no key is touched
NextLoop ==
    \/ Frame(LoopGaps, MaxTime)
    \/ Tick

SpecLoop == Init /\ [][NextLoop]_vars


-----------------------------------------------------------------------------
(* The flight of Projectiles and Mobs: no key is touched after the first     *)
(* frame (space is held from the start, or not at all), and the random       *)
(* outcomes vary                                                             *)

FlightAccelerations == {0, 3, 6}
FlightMobXs == {20, 150, 280}
FlightHeadings == {1, 2, 3}
FlightSwitchTimes == {2}

InitFlight ==
    /\ LET w == start(EmptyWorld)
       IN /\ \E held \in { {}, {32} } :
               heap = [ w.heap EXCEPT ![w.player].raw_input = held ]
          /\ created = w.created
          /\ entities = w.entities
          /\ queued_entities_for_removal = w.queue
          /\ running_id = w.running_id
          /\ player = w.player
          /\ enemy_spawner = w.enemy_spawner
    /\ last_time = Null
    /\ loop_count = 0
    /\ curr_time = 0
    /\ first_time = Null
    /\ delta_time = 0
    /\ pc = "idle"
    /\ todo = << >>
    /\ updated = {}
    /\ key_events = 0

NextFlight ==
    \/ Frame(GameGaps, MaxLoops * (Resolution + 1))
    \/ LoopTest
    \/ Poll
    \/ UpdateEntity(FlightAccelerations, FlightHeadings, FlightSwitchTimes)
    \/ Collide
    \/ Purge
    \/ Spawn(FlightMobXs)
    \/ RestartCheck
    \/ Draw

SpecFlight == InitFlight /\ [][NextFlight]_vars

\* the seconds of simulated time the fair flight runs for
FairSeconds == 20

FairAccelerations == {0, 6}
FairHeadings == {1, 3}
FairMobXs == {150, 280}

NextFlightFair ==
    \/ Frame(GameGaps, FairSeconds * fps * (Resolution + 1))
    \/ LoopTest
    \/ Poll
    \/ UpdateEntity(FairAccelerations, FairHeadings, FlightSwitchTimes)
    \/ Collide
    \/ Purge
    \/ Spawn(FairMobXs)
    \/ RestartCheck
    \/ Draw

\* the browser keeps calling back and the script keeps running
SpecFlightFair == InitFlight /\ [][NextFlightFair]_vars /\ WF_vars(NextFlightFair)

-----------------------------------------------------------------------------
(* The collision checker as a function of the registry: every arrangement of *)
(* a Player and two other bodies on a small grid, under every assignment of  *)
(* the ids 0..2 to them                                                      *)

ResolverXs == {0, 5, 10, 40}
ResolverYs == {0, 5, 10, 15, 40}
ResolverKinds == {"Mob", "Projectile"}

\* a body of the given kind, built by its constructor
Build(w, kind) ==
    IF kind = "Mob" THEN Mob_constructor(w, 20) ELSE Projectile_constructor(w, 0)

\* the object at reference r moved to pixel (x, y) and given the id perm[r]
Placed(w, r, x, y, perm) ==
    [ w EXCEPT !.heap[r].position = [x |-> px(x), y |-> px(y)],
               !.heap[r].id = perm[r],
               !.created[r].id = perm[r] ]

Permutations3 == { f \in [1 .. 3 -> 0 .. 2] : \A a, b \in 1 .. 3 : a # b => f[a] # f[b] }

InitResolver ==
    /\ \E k2, k3 \in ResolverKinds, perm \in Permutations3,
          x1 \in {0, 40}, x2, x3 \in ResolverXs, y2, y3 \in ResolverYs :
         LET w0 == Build(Build(start(EmptyWorld), k2), k3)
             w1 == Placed(Placed(Placed(w0, 1, x1, x1, perm), 2, x2, y2, perm),
                          3, x3, y3, perm)
             w  == [ w1 EXCEPT !.entities = [ k \in 0 .. 2 |->
                                   CHOOSE r \in 1 .. 3 : perm[r] = k ] ]
         IN /\ heap = w.heap
            /\ created = w.created
            /\ entities = w.entities
            /\ queued_entities_for_removal = w.queue
            /\ running_id = w.running_id
            /\ player = w.player
            /\ enemy_spawner = w.enemy_spawner
    /\ last_time = Null
    /\ loop_count = 0
    /\ curr_time = 0
    /\ first_time = Null
    /\ delta_time = 0
    /\ pc = "collision"
    /\ todo = << >>
    /\ updated = {}
    /\ key_events = 0

SpecResolver == InitResolver /\ [][Collide]_vars

-----------------------------------------------------------------------------
(* The collision scan and the ticks after it as a function of the Player's   *)
(* health and of where the Mobs are: a Player, whole or down to its last 20  *)
(* of health, and two Mobs on a small grid, at the scan of a tick with more  *)
(* ticks of the same frame to come                                           *)

\* the ticks' worth of time the frame still has to work off
WoundedBacklog == 3

WoundedHealths == {100, 20}
WoundedXs == {20, 150}
WoundedYs == {100, 350, 400}

\* the ids as the constructors give them
NaturalIds == [ r \in 1 .. 3 |-> r - 1 ]

InitWounded ==
    /\ \E h \in WoundedHealths, held \in { {}, {32} },
          x2, x3 \in WoundedXs, y2, y3 \in WoundedYs :
         LET w0 == Build(Build(start(EmptyWorld), "Mob"), "Mob")
             w1 == Placed(Placed(w0, 2, x2, y2, NaturalIds), 3, x3, y3, NaturalIds)
             w  == [ w1 EXCEPT !.heap[w1.player].health = h,
                               !.heap[w1.player].raw_input = held ]
         IN /\ heap = w.heap
            /\ created = w.created
            /\ entities = w.entities
            /\ queued_entities_for_removal = w.queue
            /\ running_id = w.running_id
            /\ player = w.player
            /\ enemy_spawner = w.enemy_spawner
    /\ last_time = 0
    /\ loop_count = 0
    /\ curr_time = WoundedBacklog * update_rate_seconds
    /\ first_time = 0
    /\ delta_time = WoundedBacklog * update_rate_seconds
    /\ pc = "collision"
    /\ todo = << >>
    /\ updated = {}
    /\ key_events = 0

SpecWounded == InitWounded /\ [][Tick]_vars

-----------------------------------------------------------------------------
(* Vocabulary of the properties *)

\* the references stored in the registry
Live == { entities[k] : k \in DOMAIN entities }
LiveNext == { entities'[k] : k \in DOMAIN entities' }

\* the ids in the pending-removal list
Queued == { queued_entities_for_removal[i] : i \in DOMAIN queued_entities_for_removal }

\* how many times id is in the pending-removal list
TimesQueued(id) ==
    Cardinality({ i \in DOMAIN queued_entities_for_removal :
                    queued_entities_for_removal[i] = id })

\* the ids a step appends to the pending-removal list
Appended ==
    IF Len(queued_entities_for_removal') >= Len(queued_entities_for_removal)
    THEN SubSeq(queued_entities_for_removal', Len(queued_entities_for_removal) + 1,
                Len(queued_entities_for_removal'))
    ELSE << >>

QueueGrows ==
    /\ Len(queued_entities_for_removal') >= Len(queued_entities_for_removal)
    /\ SubSeq(queued_entities_for_removal', 1, Len(queued_entities_for_removal))
         = queued_entities_for_removal

\* the references of the objects a step constructs
Born == (Len(created) + 1) .. Len(created')

\* the step is a restart: start() has replaced the player
Restarted == player' # player

\* the objects of the current session constructed so far, by kind
SessionBodies(kind) == { r \in player + 1 .. Len(created) : created[r].type = kind }

ThePlayer == heap[player]


-----------------------------------------------------------------------------
(* C1 *)

\* C1 (as claimed): whenever loop() has returned, the number of ticks run so
\* far is within one of floor(total_elapsed / tick_duration), total_elapsed
\* being the time from the first callback to the latest one.
C1_TicksMatchElapsed ==
    (pc = "idle" /\ first_time # Null) =>
        LET expected == (curr_time - first_time) \div update_rate_seconds
        IN /\ loop_count >= expected - 1
           /\ loop_count <= expected + 1

-----------------------------------------------------------------------------
(* C2 *)

\* an id in the pending list that is no key of the registry can only be the
\* dead Player's, queued by draw() after the Player was purged
OnlyDeadPlayerQueuedAbsent ==
    \A i \in DOMAIN queued_entities_for_removal :
        queued_entities_for_removal[i] \notin DOMAIN entities =>
            /\ i = 1
            /\ queued_entities_for_removal[i] = ThePlayer.id
            /\ isDead(ThePlayer)

NothingDeletedInPassOrScan ==
    pc \in {"entities", "collision"} =>
        /\ \A k \in DOMAIN entities :
               k \in DOMAIN entities' /\ entities'[k] = entities[k]
        /\ QueueGrows
        /\ \A i \in DOMAIN Appended : Appended[i] \in DOMAIN entities'

DeletedOnlyByPurgeOrRestart ==
    (\E k \in DOMAIN entities : k \notin DOMAIN entities') =>
        pc \in {"purge", "restart"}

\* C2: a step of the update pass or of the collision scan deletes no key of
\* the registry and every id it queues is a key of the registry after it; the
\* registry loses keys only in the purge or in a restart; so up to the purge
\* every queued id (but a purged dead Player's, queued by draw) is still a key.
C2_RemovalIsDeferred ==
    /\ [][NothingDeletedInPassOrScan]_vars
    /\ [][DeletedOnlyByPurgeOrRestart]_vars
    /\ [](pc \in {"entities", "collision", "purge"} => OnlyDeadPlayerQueuedAbsent)

\* the scan has run, and a Mob and a Projectile it queued are still registered
C2_Witness ==
    /\ pc = "purge"
    /\ \E m, q \in Queued :
         /\ m \in DOMAIN entities /\ heap[entities[m]].type = "Mob"
         /\ q \in DOMAIN entities /\ heap[entities[q]].type = "Projectile"

-----------------------------------------------------------------------------
(* C3 *)

\* C3 (as claimed): at the start of every tick no queued id is a key of the
\* registry.
C3_NoQueuedIdAtTickStart ==
    pc = "poll" => \A id \in Queued : id \notin DOMAIN entities

PurgeDeletesTheQueued ==
    pc = "purge" =>
        /\ queued_entities_for_removal' = << >>
        /\ \A id \in Queued : id \notin DOMAIN entities'
        /\ \A k \in DOMAIN entities :
               k \notin Queued => (k \in DOMAIN entities' /\ entities'[k] = entities[k])

QueueEmptiedOnlyByPurgeOrRestart ==
    ~QueueGrows => pc \in {"purge", "restart"}

\* C3 (amended): the purge deletes every queued id from the registry and
\* empties the list, and the list is emptied nowhere else but in a restart;
\* at the start of a tick the list holds at most one id, the dead Player's
\* (queued by draw() after the purge), which may still be a key.
C3_PurgeDrainsQueue ==
    /\ [][PurgeDeletesTheQueued]_vars
    /\ [][QueueEmptiedOnlyByPurgeOrRestart]_vars
    /\ [](pc = "poll" =>
             /\ Len(queued_entities_for_removal) <= 1
             /\ \A id \in Queued : id = ThePlayer.id /\ isDead(ThePlayer))

\* a tick starts with the dead Player queued by draw() and still registered
C3_Witness ==
    /\ pc = "poll"
    /\ queued_entities_for_removal = << ThePlayer.id >>
    /\ ThePlayer.id \in DOMAIN entities

-----------------------------------------------------------------------------
(* C5 *)

\* C5: the ids in the creation log (which spans all sessions) are strictly
\* increasing, all below running_id, and every entity of the registry is stored
\* under its own id.
C5_IdsIncreaseNeverReused ==
    /\ \A a, b \in DOMAIN created : a < b => created[a].id < created[b].id
    /\ \A a \in DOMAIN created : created[a].id < running_id
    /\ \A k \in DOMAIN entities :
         /\ heap[entities[k]].id = k
         /\ created[entities[k]].id = k

\* a second session has begun and its Player has an id above all earlier ones
C5_Witness ==
    /\ player > 1
    /\ Len(created) >= 7
    /\ ThePlayer.id = running_id - 1

-----------------------------------------------------------------------------
(* C7 *)

RestartIffDeadAndAction ==
    pc = "restart" =>
        (Restarted <=> (ThePlayer.health <= 0 /\ ThePlayer.controller.action_1))

RestartOnlyInRestartCheck ==
    Restarted => (pc = "restart" /\ ThePlayer.health <= 0)

DeadStaysDead ==
    (ThePlayer.health <= 0 /\ ~Restarted) => heap'[player'].health <= 0

\* C7: the restart check replaces the player exactly when the Player is dead
\* and action_1 is set in its controller; the player is replaced nowhere else;
\* a dead Player stays dead as long as it is the player.
C7_RestartExactlyWhenDeadAndAction ==
    /\ [][RestartIffDeadAndAction]_vars
    /\ [][RestartOnlyInRestartCheck]_vars
    /\ [][DeadStaysDead]_vars

\* game over without a restart: the dead Player has been purged, action_1 unset
C7_Witness ==
    /\ pc = "draw"
    /\ isDead(ThePlayer)
    /\ ThePlayer.id \notin DOMAIN entities
    /\ ~ThePlayer.controller.action_1

-----------------------------------------------------------------------------
(* C8 *)

RestartLeavesFreshSession ==
    Restarted =>
        /\ player' \notin DOMAIN heap
        /\ DOMAIN heap' = { player' }
        /\ DOMAIN entities' = { heap'[player'].id }
        /\ entities'[heap'[player'].id] = player'
        /\ heap'[player'].type = "Player"
        /\ heap'[player'].health = 100
        /\ heap'[player'].mobsKilled = 0
        /\ heap'[player'].mobCount = 0
        /\ heap'[player'].lifeTime = 0
        /\ heap'[player'].accumulator = 0
        /\ queued_entities_for_removal' = << >>
        /\ enemy_spawner'.accumulator = 0

\* C8: a restart leaves exactly one entity in the registry, a new Player with
\* health 100 and all counters 0, an empty pending list and a Spawner at 0;
\* and at no time does the registry or the pending list hold an id of an
\* earlier session (an id below the current Player's).
C8_RestartReinitialises ==
    /\ [][RestartLeavesFreshSession]_vars
    /\ [](/\ \A k \in DOMAIN entities : k >= ThePlayer.id
          /\ \A id \in Queued : id >= ThePlayer.id)

\* the restart has just happened, in the tick in which the Player died
C8_Witness ==
    /\ pc = "draw"
    /\ player > 1
    /\ ThePlayer.lifeTime = 0
    /\ Len(created) = player

-----------------------------------------------------------------------------
(* C9 *)

SpawnerStep ==
    pc = "spawn" =>
        LET acc == enemy_spawner.accumulator + update_rate_seconds
        IN IF acc >= seconds(5)
           THEN /\ Cardinality(Born) = 1
                /\ \A r \in Born : /\ created'[r].type = "Mob"
                                   /\ r \in LiveNext
                /\ heap'[player].mobCount = ThePlayer.mobCount + 1
                /\ enemy_spawner'.accumulator = 0
           ELSE /\ Born = {}
                /\ heap'[player].mobCount = ThePlayer.mobCount
                /\ enemy_spawner'.accumulator = acc

MobsBornOnlyInSpawner ==
    (\E r \in Born : created'[r].type = "Mob") => pc = "spawn"

-----------------------------------------------------------------------------
(* C4 *)

\* the registered Mobs that overlap the registered body r
MobsOn(r) == { m \in Live : heap[m].type = "Mob" /\ Overlap(heap[r], heap[m]) }

\* the registered Players and Projectiles that overlap the registered Mob m
StrikersOf(m) ==
    { r \in Live : heap[r].type \in {"Player", "Projectile"} /\ Overlap(heap[r], heap[m]) }

\* how many times a step appends id to the pending list
TimesAppended(id) == Cardinality({ i \in DOMAIN Appended : Appended[i] = id })

ResolverStep ==
    pc = "collision" =>
        /\ entities' = entities
        /\ QueueGrows
        /\ \A r \in Live :
             /\ heap'[r].health =
                  heap[r].health - (IF heap[r].type = "Player"
                                    THEN 20 * Cardinality(MobsOn(r)) ELSE 0)
             /\ TimesAppended(heap[r].id) =
                  CASE heap[r].type = "Mob"        -> Cardinality(StrikersOf(r))
                    [] heap[r].type = "Projectile" -> Cardinality(MobsOn(r))
                    [] OTHER                       -> 0
             /\ heap'[r].position = heap[r].position
             /\ heap'[r].type = heap[r].type
        /\ heap'[player].mobsKilled =
             ThePlayer.mobsKilled
               + Cardinality({ pr \in Live \X Live :
                                 /\ heap[pr[1]].type = "Projectile"
                                 /\ pr[2] \in MobsOn(pr[1]) })

\* C4: one run of the collision scan lowers the Player's health by 20 for each
\* Mob that overlaps it and queues that Mob once; queues a Projectile and a Mob
\* that overlap once each and raises the kill count by 1 for that pair; and
\* does nothing else: pairs of one kind and Player/Projectile pairs change no
\* health, no kill count and queue nothing. The registry is left as it is.
\* This is so under every assignment of the ids to the bodies.
C4_ResolverRules == [][ResolverStep]_vars

\* the scan has run on a Mob that overlapped both the Player and a Projectile,
\* the Player having the largest id of the three
C4_Witness ==
    /\ pc = "purge"
    /\ ThePlayer.id = 2
    /\ ThePlayer.health = 80
    /\ ThePlayer.mobsKilled = 1
    /\ Len(queued_entities_for_removal) = 3

-----------------------------------------------------------------------------
(* C6 *)

\* C6 (as claimed): the collision scan starts only after every live entity has
\* updated for that tick.
C6_ScanAfterEveryLiveEntityUpdated ==
    pc = "collision" => Live \subseteq updated

PhaseStep ==
    pc' # pc =>
        \/ << pc, pc' >> \in { << "idle", "while" >>, << "while", "idle" >>,
                               << "while", "poll" >>, << "poll", "entities" >>,
                               << "entities", "collision" >>,
                               << "collision", "purge" >>, << "purge", "spawn" >>,
                               << "spawn", "restart" >>, << "restart", "draw" >>,
                               << "draw", "while" >> }
        \/ /\ << pc, pc' >> = << "poll", "collision" >>
           /\ DOMAIN entities = {}

NoRemovalBeforeScanEnds ==
    pc \in {"poll", "entities", "collision"} =>
        \A k \in DOMAIN entities : k \in DOMAIN entities' /\ entities'[k] = entities[k]

SpawnedMobUntouched ==
    /\ pc = "spawn" =>
         \A r \in Born : /\ r \notin updated'
                         /\ heap'[r].position.y = px(-12)
                         /\ heap'[r].accumulator = 0
    /\ pc \in {"spawn", "restart", "draw", "while", "idle"} =>
         /\ \A r \in DOMAIN heap \cap DOMAIN heap' :
              heap[r].type = "Mob" => heap'[r] = heap[r]
         /\ \A i \in DOMAIN Appended :
              \A r \in DOMAIN heap : heap[r].type = "Mob" => Appended[i] # heap[r].id

\* C6 (amended): the phases of a tick follow each other in the order poll,
\* entity updates (skipped when the registry is empty), collision scan, purge,
\* spawner, restart check, draw; when the scan starts every registered entity
\* has updated in this tick except the Projectiles constructed during this
\* tick's update pass, which are scanned where they were constructed; no key
\* leaves the registry before the scan has ended; and a Mob the Spawner
\* constructs is not changed and not queued before the next tick's poll.
C6_PhasesInOrder ==
    /\ [][PhaseStep]_vars
    /\ [][NoRemovalBeforeScanEnds]_vars
    /\ [][SpawnedMobUntouched]_vars
    /\ [](pc = "collision" =>
             /\ todo = << >>
             /\ \A r \in Live \ updated :
                  /\ heap[r].type = "Projectile"
                  /\ \A u \in updated : u < r)

\* the scan starts with a Mob that has updated in this tick and a Projectile
\* that was constructed in it and has not
C6_Witness ==
    /\ pc = "collision"
    /\ \E m \in Live \cap updated : heap[m].type = "Mob"
    /\ \E q \in Live \ updated : heap[q].type = "Projectile"

-----------------------------------------------------------------------------
(* C10 *)

\* a Projectile was constructed in this tick's update pass
Fired == \E r \in Live \ updated : heap[r].type = "Projectile"

\* C10 (as claimed): in every tick the Player constructs a Projectile exactly
\* when action_1 is set and its accumulator has reached 1 s, and then the
\* accumulator is 0 (seen when the update pass of the tick is over).
C10_FiresExactlyWhenReady ==
    pc = "collision" =>
        IF Fired
        THEN ThePlayer.controller.action_1 /\ ThePlayer.accumulator = 0
        ELSE ~(ThePlayer.controller.action_1 /\ ThePlayer.accumulator >= seconds(1))

PlayerUpdateStep ==
    (pc = "entities" /\ Head(todo) = player) =>
        LET acc == ThePlayer.accumulator + update_rate_seconds
        IN IF ThePlayer.controller.action_1 /\ acc >= seconds(1)
           THEN /\ Cardinality(Born) = 1
                /\ \A r \in Born : /\ created'[r].type = "Projectile"
                                   /\ r \in LiveNext
                /\ heap'[player].accumulator = 0
           ELSE /\ Born = {}
                /\ heap'[player].accumulator = acc

OnlyPlayerUpdateFires ==
    /\ (\E r \in Born : created'[r].type = "Projectile") =>
           (pc = "entities" /\ Head(todo) = player)
    /\ (~Restarted /\ heap'[player].accumulator # ThePlayer.accumulator) =>
           (pc = "entities" /\ Head(todo) = player)

\* C10 (amended): in every tick in which the Player is updated (it is in the
\* registry), its update constructs a Projectile exactly when action_1 is set
\* and the accumulator plus the tick has reached 1 s, and then sets the
\* accumulator to 0, else adds the tick to it; Projectiles are constructed and
\* the accumulator changes nowhere else; so with action_1 held the accumulator
\* is below 1 s after each update, and the k-th Projectile of a session is
\* constructed no earlier than k seconds into the Player's lifetime.
C10_FiresWhenUpdatedAndReady ==
    /\ [][PlayerUpdateStep]_vars
    /\ [][OnlyPlayerUpdateFires]_vars
    /\ [](pc = "collision" /\ player \in updated /\ ThePlayer.controller.action_1 =>
             ThePlayer.accumulator < seconds(1))
    /\ [](Cardinality(SessionBodies("Projectile")) * seconds(1) + ThePlayer.accumulator
             <= ThePlayer.lifeTime)

\* the Player's update has just constructed its Projectile, one second into
\* the session
C10_Witness ==
    /\ player \in updated
    /\ Fired
    /\ ThePlayer.accumulator = 0
    /\ ThePlayer.lifeTime = seconds(1)
    /\ Cardinality(SessionBodies("Projectile")) = 1


-----------------------------------------------------------------------------
(* C11 *)

\* the registered entities of kind Player
RegisteredPlayers == { r \in Live : heap[r].type = "Player" }

\* between two ticks: the while loop is about to test, has returned, or a tick
\* is about to poll
TickBoundary == pc \in {"while", "idle", "poll"}

\* C11 (as claimed): at every tick boundary the registry holds exactly one
\* entity of kind Player.
C11_ExactlyOnePlayerRegistered ==
    TickBoundary => Cardinality(RegisteredPlayers) = 1

DeadPlayerIsPurged ==
    /\ (pc = "purge" /\ ThePlayer.id \in Queued) => player \notin LiveNext
    /\ (player \notin Live /\ ~Restarted) => player' \notin LiveNext

\* C11 (amended): the registry never holds a Player other than the current
\* one; while the Player is alive it is registered; a dead Player that is
\* still registered at a tick boundary is queued, the purge of the next tick
\* deletes it, and it stays absent until a restart: from then on the registry
\* holds no Player at all.
C11_AtMostThePlayerRegistered ==
    /\ [](RegisteredPlayers \subseteq { player })
    /\ [](~isDead(ThePlayer) => RegisteredPlayers = { player })
    /\ [](TickBoundary /\ isDead(ThePlayer) /\ player \in Live =>
             ThePlayer.id \in Queued)
    /\ [][DeadPlayerIsPurged]_vars

\* game over, a tick is about to start and the registry holds no Player
C11_Witness ==
    /\ pc = "poll"
    /\ isDead(ThePlayer)
    /\ RegisteredPlayers = {}


-----------------------------------------------------------------------------
(* C12 *)

\* the overlapping (Projectile, Mob) pairs of the registry
ProjectileMobPairs ==
    { pr \in Live \X Live : heap[pr[1]].type = "Projectile" /\ pr[2] \in MobsOn(pr[1]) }

AppliedTwiceStep ==
    pc = "collision" =>
        /\ heap'[player].health = ThePlayer.health - 40 * Cardinality(MobsOn(player))
        /\ heap'[player].mobsKilled =
             ThePlayer.mobsKilled + 2 * Cardinality(ProjectileMobPairs)

\* C12 (as claimed): one run of the scan takes 40 health from the Player for
\* each Mob that overlaps it and raises the kill count by 2 for each
\* overlapping Projectile/Mob pair.
C12_EffectsAppliedTwice == [][AppliedTwiceStep]_vars

AppliedOnceStep ==
    pc = "collision" =>
        /\ heap'[player].health = ThePlayer.health - 20 * Cardinality(MobsOn(player))
        /\ heap'[player].mobsKilled =
             ThePlayer.mobsKilled + Cardinality(ProjectileMobPairs)

\* how many times the index loops visit (i, j)
Visits(i, j) ==
    LET pairs == OrderedPairs(ArrayLength(World))
    IN Cardinality({ k \in DOMAIN pairs : pairs[k] = << i, j >> })

\* C12 (amended): the scan visits both orderings of every pair of registered
\* entities, once each, but the rules match only one of the two orderings (the
\* other visit changes nothing), so the effect of an overlapping pair is
\* applied once: 20 health for one overlapping Mob, 1 kill for one overlapping
\* Projectile/Mob pair.
C12_EffectsAppliedOnce ==
    /\ [][AppliedOnceStep]_vars
    /\ [](pc = "collision" =>
             \A i, j \in DOMAIN entities :
                 /\ Visits(i, j) = 1
                 /\ \/ CollidePair(World, entities[i], entities[j]) = World
                    \/ CollidePair(World, entities[j], entities[i]) = World)

\* the scan has run on one Mob that overlapped the Player, whose id is the
\* smaller one, and on nothing else
C12_Witness ==
    /\ pc = "purge"
    /\ ThePlayer.id = 0
    /\ ThePlayer.health = 80
    /\ ThePlayer.mobsKilled = 0
    /\ Len(queued_entities_for_removal) = 1


-----------------------------------------------------------------------------
(* C13 *)

\* the registered Projectiles
Projectiles == { r \in Live : heap[r].type = "Projectile" }

\* the magnitude of the y-velocity of the object at r, before and after a step
SpeedY(r) == IF heap[r].velocity.y < 0 THEN -heap[r].velocity.y ELSE heap[r].velocity.y
SpeedYNext(r) ==
    IF heap'[r].velocity.y < 0 THEN -heap'[r].velocity.y ELSE heap'[r].velocity.y

SpeedNeverGrows ==
    /\ \A r \in Born : created'[r].type = "Projectile" => SpeedYNext(r) = 100
    /\ \A r \in Projectiles \cap LiveNext :
         /\ SpeedYNext(r) <= SpeedY(r)
         /\ SpeedYNext(r) <= 100

\* C13 (as claimed): a Projectile starts with y-velocity -100 and the magnitude
\* of its y-velocity never grows from one step to the next, so it never
\* exceeds 100.
C13_SpeedNonIncreasing == [][SpeedNeverGrows]_vars

ProjectileFlightStep ==
    /\ \A r \in Born : created'[r].type = "Projectile" =>
         /\ heap'[r].velocity = [x |-> 0, y |-> -100]
         /\ heap'[r].acceleration \in 0 .. 6
    /\ \A r \in Projectiles \cap LiveNext :
         IF pc = "entities" /\ Head(todo) = r
         THEN /\ heap'[r].velocity.y = heap[r].velocity.y - heap[r].acceleration
              /\ heap'[r].acceleration = heap[r].acceleration
              /\ heap'[r].position.y =
                   heap[r].position.y + update_rate_seconds * heap'[r].velocity.y
              /\ SpeedYNext(r) = SpeedY(r) + heap[r].acceleration
         ELSE heap'[r] = heap[r]

\* C13 (amended): a Projectile starts with y-velocity -100 and a per-tick
\* acceleration a in 0..6 fixed at creation; every update subtracts a from the
\* y-velocity, so the magnitude of the y-velocity grows by a per update: it is
\* never below 100, is non-decreasing, and is 100 plus a multiple of a.
C13_SpeedNonDecreasing ==
    /\ [][ProjectileFlightStep]_vars
    /\ [](\A r \in Projectiles :
             /\ heap[r].velocity.y <= -100
             /\ \E n \in 0 .. MaxLoops :
                  SpeedY(r) = 100 + n * heap[r].acceleration)

\* a Projectile with acceleration 6 has updated twice: its speed is 112
C13_Witness ==
    \E r \in Projectiles :
        /\ heap[r].acceleration = 6
        /\ heap[r].velocity.y = -112


-----------------------------------------------------------------------------
(* C14 *)

\* the registry the purge would leave if it ran on world w
RegistryAfterPurge(w) == Purge_queue(w).entities

\* the registry without the key id
Without(ents, id) == [ k \in DOMAIN ents \ { id } |-> ents[k] ]

PurgeIsSetDifference ==
    pc = "purge" =>
        entities' = [ k \in DOMAIN entities \ Queued |-> entities[k] ]

\* C14: the purge leaves the registry without the queued ids and with every
\* other entry as it was, however often an id is queued and whether or not it
\* is a key; and in every state, for every object r: the purge after one more
\* remove() of r leaves what the purge alone leaves, less the id of r; after
\* two more remove() of r it leaves the same as after one; and if the id of r
\* is queued already or is no key (any more), the remove() changes nothing in
\* what the purge leaves.
C14_RemoveIsIdempotent ==
    /\ [][PurgeIsSetDifference]_vars
    /\ [](\A r \in DOMAIN heap :
            /\ RegistryAfterPurge(remove(World, r))
                 = Without(RegistryAfterPurge(World), heap[r].id)
            /\ RegistryAfterPurge(remove(remove(World, r), r))
                 = RegistryAfterPurge(remove(World, r))
            /\ (heap[r].id \in Queued \/ heap[r].id \notin DOMAIN entities) =>
                 RegistryAfterPurge(remove(World, r)) = RegistryAfterPurge(World))

\* the purge has just run on the id of the dead Player, which draw() queued
\* although the Player had left the registry a tick before (it was not updated
\* in this tick)
C14_Witness ==
    /\ pc = "spawn"
    /\ isDead(ThePlayer)
    /\ player \notin Live
    /\ player \notin updated
    /\ queued_entities_for_removal = << >>

\* the purge is about to run on a list that holds the id of a Mob twice
C14_QueuedTwice ==
    /\ pc = "purge"
    /\ \E i, j \in DOMAIN queued_entities_for_removal :
         /\ i < j
         /\ queued_entities_for_removal[i] = queued_entities_for_removal[j]


-----------------------------------------------------------------------------
(* C15 *)

\* the registered Mobs
Mobs == { r \in Live : heap[r].type = "Mob" }

\* the ticks a Mob or a Projectile needs at most to cross the canvas: 8 s
Horizon == 8 * fps + 2

\* the step is the update of the registered body r
UpdateOf(r) == pc = "entities" /\ Head(todo) = r

FlightProgress ==
    /\ \A r \in Projectiles \cap LiveNext :
         UpdateOf(r) =>
             /\ heap'[r].position.y <= heap[r].position.y - update_rate_seconds * 100
             /\ heap[r].position.y <= px(-5) =>
                    \E i \in DOMAIN Appended : Appended[i] = heap[r].id
    /\ \A r \in Mobs \cap LiveNext :
         UpdateOf(r) =>
             /\ heap'[r].position.y
                  >= heap[r].position.y + update_rate_seconds * TimesSQRT1_2(100)
             /\ heap[r].position.y >= px(canvas_height + 5) =>
                    \E i \in DOMAIN Appended : Appended[i] = heap[r].id
    /\ pc = "poll" => (todo' = ObjectValues(World) /\ updated' = {})
    /\ pc = "purge" => \A id \in Queued : id \notin DOMAIN entities'

\* r is a registered Projectile or Mob, and the run goes on for Horizon ticks
\* more (the ids and the loop count suffice for them)
EarlyBody(r) ==
    /\ r \in Live
    /\ heap[r].type # "Player"
    /\ loop_count + Horizon <= FairSeconds * fps
    /\ ThePlayer.raw_input = {} \/ running_id <= 2

\* C15: a Projectile has a negative and a Mob a positive y-velocity at all
\* times; every update moves a Projectile up by at least 100 px/s and a Mob
\* down by at least 70 px/s, every registered body is updated in every tick,
\* and a body that is beyond its boundary (y <= -5, y >= height + 5) when it
\* updates is queued and purged in that tick; so no body that was beyond its
\* boundary is found at a tick boundary, at most 5 Projectiles and 2 Mobs are
\* registered at a time, and every Projectile and Mob that is registered
\* while the run still goes on for 8 s is eventually not registered.
C15_EveryBodyLeaves ==
    /\ [][FlightProgress]_vars
    /\ [](\A r \in Projectiles : heap[r].velocity.y <= -100)
    /\ [](\A r \in Mobs : heap[r].velocity.y >= TimesSQRT1_2(100))
    /\ [](TickBoundary =>
             /\ \A r \in Projectiles :
                  heap[r].position.y - update_rate_seconds * heap[r].velocity.y > px(-5)
             /\ \A r \in Mobs :
                  heap[r].position.y - update_rate_seconds * 100 < px(canvas_height + 5))
    /\ [](Cardinality(Projectiles) <= 5 /\ Cardinality(Mobs) <= 2)
    /\ \A r \in 2 .. MaxId + 1 : EarlyBody(r) ~> (r \notin Live)

\* a Mob has crossed the canvas and left the registry through the bottom: the
\* Player is unhurt and has no kill
C15_Witness ==
    /\ ThePlayer.health = 100
    /\ ThePlayer.mobsKilled = 0
    /\ \E r \in DOMAIN created : created[r].type = "Mob" /\ r \notin Live

\* a Projectile has crossed the canvas and left the registry through the top
C15_ProjectileLeft ==
    /\ ThePlayer.mobsKilled = 0
    /\ \E r \in DOMAIN created : created[r].type = "Projectile" /\ r \notin Live


-----------------------------------------------------------------------------
(* C16 *)

\* what a step does to the health of every object: the collision scan lowers
\* the registered Player's health by 20 for each Mob on it, whatever the
\* result; no other step and no other object's health changes (of the objects
\* that are still referenced after the step); a new object starts with 100
HealthStep ==
    /\ \A r \in DOMAIN heap \cap DOMAIN heap' :
         heap'[r].health =
           IF r = player /\ pc = "collision" /\ r \in Live
           THEN heap[r].health - 20 * Cardinality(MobsOn(r))
           ELSE heap[r].health
    /\ \A r \in Born : heap'[r].health = 100

\* within a session the Player's health never rises
HealthNeverRises == ~Restarted => heap'[player].health <= ThePlayer.health

C16_SeveralMobsInOneTick ==
    /\ pc = "purge"
    /\ loop_count = 0
    /\ ThePlayer.health = -20
    /\ Len(queued_entities_for_removal) = 2
    /\ isDead(ThePlayer)


-----------------------------------------------------------------------------
(* C17 *)

\* C17: in every reachable state of a session the Player's kill count is at
\* most the number of Mobs spawned in the session (mobsKilled <= mobCount):
\* each Mob is credited as a kill at most once, also when two Projectiles
\* overlap it in the same tick.
C17_KillsNeverExceedMobs == ThePlayer.mobsKilled <= ThePlayer.mobCount

\* the scan has credited one Mob twice: two Projectiles were on it, each pair
\* queued the Mob and raised the kill count
C17_MobCreditedTwice ==
    /\ pc = "purge"
    /\ ThePlayer.mobCount = 1
    /\ ThePlayer.mobsKilled = 2
    /\ \E m \in Mobs : TimesQueued(heap[m].id) = 2


-----------------------------------------------------------------------------
(* C18 *)

\* the Mobs of the session that have left the registry or are queued to
SpentMobs ==
    { m \in SessionBodies("Mob") : m \notin Live \/ created[m].id \in Queued }

\* the scan queues every Mob that is on the registered Player, and the purge
\* of the same tick deletes every queued Mob
HitMobIsPurged ==
    /\ pc = "collision" /\ player \in Live =>
         \A m \in MobsOn(player) : heap[m].id \in Queued'
    /\ pc = "purge" =>
         \A m \in Mobs : heap[m].id \in Queued => m \notin LiveNext

\* C18: each Mob damages the Player at most once. A Mob that overlaps the
\* Player at the scan is queued by it and deleted by the purge of the same
\* tick; the health the Player has lost is at most 20 for each Mob of the
\* session that has left the registry or is queued to; mobCount is the number
\* of Mobs spawned in the session; so health >= 100 - 20 * mobCount in every
\* reachable state.
C18_EachMobDamagesOnce ==
    /\ [][HitMobIsPurged]_vars
    /\ [](100 - ThePlayer.health <= 20 * Cardinality(SpentMobs))
    /\ [](Cardinality(SessionBodies("Mob")) = ThePlayer.mobCount)
    /\ [](ThePlayer.health >= 100 - 20 * ThePlayer.mobCount)

\* a Mob that was updated in this tick has hit the Player and the purge of
\* the tick has deleted it
C18_Witness ==
    /\ pc = "spawn"
    /\ ThePlayer.health = 80
    /\ ThePlayer.mobCount = 1
    /\ Mobs = {}
    /\ \E m \in updated : created[m].type = "Mob"


-----------------------------------------------------------------------------
(* C19 *)

\* the registered objects that were constructed during this tick's update
\* pass: they are no element of the array the pass iterates over
Fresh ==
    IF pc \in {"entities", "collision", "purge"}
    THEN { r \in Live \ updated : \A i \in DOMAIN todo : todo[i] # r }
    ELSE {}

\* in the update pass a new Projectile is registered at once, above the
\* Player where the Player stood, is no element of the array the pass goes
\* through, and no later update of the pass touches it
FreshProjectileStep ==
    pc = "entities" =>
        /\ \A r \in Born :
             /\ created'[r].type = "Projectile"
             /\ r \in LiveNext
             /\ r \notin updated'
             /\ \A i \in DOMAIN todo' : todo'[i] # r
             /\ heap'[r].velocity = [x |-> 0, y |-> -100]
             /\ heap'[r].position =
                  [ x |-> ThePlayer.position.x,
                    y |-> ThePlayer.position.y - px(ThePlayer.size.height) - px(3) ]
        /\ \A r \in Fresh : r \in LiveNext /\ r \notin updated' /\ heap'[r] = heap[r]

\* the scan treats a Projectile of this tick like any other: it is queued
\* once for every Mob on it, each of which is queued and credited as a kill
FreshProjectileScan ==
    pc = "collision" =>
        \A r \in Fresh :
            /\ TimesAppended(heap[r].id) = Cardinality(MobsOn(r))
            /\ \A m \in MobsOn(r) : heap[m].id \in Queued'
            /\ heap'[player].mobsKilled >= ThePlayer.mobsKilled + Cardinality(MobsOn(r))

\* C19: a Projectile the Player constructs during the update pass of a tick is
\* not updated in that tick (the pass goes through the array of the entities
\* that were registered when it began), but it is registered from its
\* construction on, so the scan of that tick finds it where it was
\* constructed; when a Mob is on it there, the scan queues both and credits
\* the kill, before the Projectile's first update.
C19_FreshProjectileIsScanned ==
    /\ [][FreshProjectileStep]_vars
    /\ [][FreshProjectileScan]_vars
    /\ [](pc = "collision" => \A r \in Fresh : heap[r].type = "Projectile")

\* the scan has run in the tick a Projectile was constructed in: the
\* Projectile, not yet updated, has destroyed a Mob and is queued with it
C19_Witness ==
    /\ pc = "purge"
    /\ ThePlayer.mobsKilled >= 1
    /\ \E r \in Fresh :
         /\ heap[r].type = "Projectile"
         /\ heap[r].id \in Queued
         /\ \E m \in MobsOn(r) : heap[m].id \in Queued

=============================================================================
